---- MODULE Spec2Model ----
(***************************************************************************)
(* Model of the service monitoring loop of dev-services-manager:           *)
(* EventManager::start_monitoring / check_service_changes (src/events.rs), *)
(* the status query get_service_status_internal (src/services.rs), the     *)
(* tracked_services table (src/database.rs), and the metrics command       *)
(* get_service_metrics and the bulk command stop_all_services              *)
(* (src/services.rs).                                                      *)
(***************************************************************************)
EXTENDS Integers, Sequences, FiniteSets, TLC

VARIABLES
    tracked,              \* rows of tracked_services, in ORDER BY display_name order
    pc,                   \* position of the monitoring task
    tracked_services,     \* check_service_changes: the fetched rows (local)
    current_statuses,     \* check_service_changes: the snapshot being built (local)
    timestamp,            \* check_service_changes: timestamp of the cycle (local)
    last_known_statuses,  \* EventManager.last_known_statuses
    clock,                \* number of timestamps handed out by chrono::Utc::now()
    observed,             \* unit state each query of the cycle read from the OS
    prior,                \* last_known_statuses as the cycle's comparison read it
    attempted,            \* events passed to app_handle.emit by the cycle, in order
    emit_errors,          \* positions in attempted whose emit returned Err
    result,               \* what check_service_changes returned: "ok", "err", "none"
    trackedPrev,          \* rows fetched by the most recent completed cycle
    obsPrev,              \* unit states read by the most recent completed cycle
    completed,            \* number of cycles that returned Ok
    running,              \* calls of check_service_changes that have not returned
    mpc,                  \* position of the get_service_metrics call
    requested_unit,       \* the unit the get_service_metrics call names
    discovery,            \* what the OS answers to the call's three pid queries
    queries,              \* OS queries the call has made
    all_pids,             \* get_service_metrics: all_pids (local)
    pid_index,            \* get_service_metrics: position of `for pid in &all_pids`
    reply,                \* what the OS answered to the last per-pid query
    metrics,              \* get_service_metrics: the counters and memory_total
    mresult,              \* what get_service_metrics returned: "ok", "err", "none"
    spc,                  \* position of the stop_all_services call
    machine,              \* what systemctl answers during the stop_all_services call
    services,             \* stop_all_services: services (local)
    service_index,        \* stop_all_services: position of `for service in services`
    stop_calls,           \* names passed to stop_service by the call, in order
    results               \* stop_all_services: results (local)

pollerVars == <<tracked, pc, tracked_services, current_statuses, timestamp,
                last_known_statuses, clock, observed, prior, attempted,
                emit_errors, result, trackedPrev, obsPrev, completed, running>>

metricsVars == <<mpc, requested_unit, discovery, queries, all_pids,
                 pid_index, reply, metrics, mresult>>

stopVars == <<spc, machine, services, service_index, stop_calls, results>>

vars == <<pollerVars, metricsVars, stopVars>>

----------------------------------------------------------------------------
(* Bounds *)

\* number of poll cycles the monitoring loop starts
MaxCycles == 2

\* names a tracked service can have
Names == {"web", "cache"}

----------------------------------------------------------------------------
(* services.rs: ServiceStatus and the status query *)

Running == 0
Stopped == 1
Failed == 2
Unknown == 3

ServiceStatus == {Running, Stopped, Failed, Unknown}

\* #[derive(Debug)] on ServiceStatus: format!("{:?}", status)
DebugFmt(status) ==
    CASE status = Running -> "Running"
      [] status = Stopped -> "Stopped"
      [] status = Failed  -> "Failed"
      [] status = Unknown -> "Unknown"

\* what `systemctl is-active` prints; "activating" stands for every other
\* output, "spawn-error" for Command::output() returning Err
IsActiveOutputs == {"active", "inactive", "failed", "activating", "spawn-error"}

NotInstalled == [installed |-> FALSE, is_active |-> "inactive", is_enabled |-> FALSE]

\* the state of one unit as the systemctl queries of one status query see it
UnitStates ==
    {NotInstalled}
    \cup {[installed |-> TRUE, is_active |-> "spawn-error", is_enabled |-> FALSE]}
    \cup [installed : {TRUE},
          is_active : IsActiveOutputs \ {"spawn-error"},
          is_enabled : BOOLEAN]

NotQueried == [installed |-> FALSE, is_active |-> "not-queried", is_enabled |-> FALSE]

\* check_service_status: Err when systemctl cannot be run, else the mapping
\* of the output
check_service_status(unit) ==
    CASE unit.is_active = "spawn-error" -> [ok |-> FALSE, status |-> Unknown]
      [] unit.is_active = "active"      -> [ok |-> TRUE, status |-> Running]
      [] unit.is_active = "inactive"    -> [ok |-> TRUE, status |-> Stopped]
      [] unit.is_active = "failed"      -> [ok |-> TRUE, status |-> Failed]
      [] OTHER                          -> [ok |-> TRUE, status |-> Unknown]

\* check_service_enabled: exit status of `systemctl is-enabled`
check_service_enabled(unit) == unit.is_enabled

\* find_service_name: Err unless the unit is installed
find_service_name(unit) == unit.installed

\* get_service_status_internal: Ok(Service) or Err
get_service_status_internal(service_name, unit) ==
    IF ~find_service_name(unit)
    THEN [ok |-> FALSE, name |-> service_name, status |-> Unknown, enabled |-> FALSE]
    ELSE IF ~check_service_status(unit).ok
    THEN [ok |-> FALSE, name |-> service_name, status |-> Unknown, enabled |-> FALSE]
    ELSE [ok |-> TRUE, name |-> service_name,
          status |-> check_service_status(unit).status,
          enabled |-> check_service_enabled(unit)]

----------------------------------------------------------------------------
(* database.rs: the tracked_services table                                *)
(* A cycle reads the table once, under the database mutex, and works on   *)
(* its copy afterwards; a command that changes the table while a cycle is *)
(* past its fetch is seen by the poller as if it ran right after that     *)
(* cycle, so the commands are interleaved between the cycles.             *)

TrackedRow(name, enabled) == [name |-> name, enabled |-> enabled]

RowNames(rows) == {rows[i].name : i \in DOMAIN rows}

InsertAt(rows, pos, row) ==
    SubSeq(rows, 1, pos - 1) \o <<row>> \o SubSeq(rows, pos, Len(rows))

RemoveName(rows, name) == SelectSeq(rows, LAMBDA r : r.name # name)

\* variant: INSERT into a table whose name column is not UNIQUE
add_tracked_service_NotUnique(name, pos) ==
    /\ pc = "tick"
    /\ Len(tracked) <= Cardinality(Names)
    /\ pos \in 1..(Len(tracked) + 1)
    /\ tracked' = InsertAt(tracked, pos, TrackedRow(name, TRUE))
    /\ UNCHANGED <<pc, tracked_services, current_statuses, timestamp,
                   last_known_statuses, clock, observed, prior, attempted,
                   emit_errors, result, trackedPrev, obsPrev, completed>>
    /\ UNCHANGED running
    /\ UNCHANGED <<metricsVars, stopVars>>

\* add_tracked_service: INSERT; name is UNIQUE, enabled defaults to 1; the
\* row's place in later fetches is decided by its display_name
add_tracked_service(name, pos) ==
    /\ pc = "tick"
    /\ name \notin RowNames(tracked)
    /\ pos \in 1..(Len(tracked) + 1)
    /\ tracked' = InsertAt(tracked, pos, TrackedRow(name, TRUE))
    /\ UNCHANGED <<pc, tracked_services, current_statuses, timestamp,
                   last_known_statuses, clock, observed, prior, attempted,
                   emit_errors, result, trackedPrev, obsPrev, completed>>
    /\ UNCHANGED running
    /\ UNCHANGED <<metricsVars, stopVars>>

\* remove_tracked_service: DELETE ... WHERE name = ?
remove_tracked_service(name) ==
    /\ pc = "tick"
    /\ name \in RowNames(tracked)
    /\ tracked' = RemoveName(tracked, name)
    /\ UNCHANGED <<pc, tracked_services, current_statuses, timestamp,
                   last_known_statuses, clock, observed, prior, attempted,
                   emit_errors, result, trackedPrev, obsPrev, completed>>
    /\ UNCHANGED running
    /\ UNCHANGED <<metricsVars, stopVars>>

\* update_service_enabled: UPDATE ... SET enabled = ? WHERE name = ?
update_service_enabled(name, enabled) ==
    /\ pc = "tick"
    /\ \E i \in DOMAIN tracked :
            /\ tracked[i].name = name
            /\ tracked[i].enabled # enabled
            /\ tracked' = [tracked EXCEPT ![i].enabled = enabled]
    /\ UNCHANGED <<pc, tracked_services, current_statuses, timestamp,
                   last_known_statuses, clock, observed, prior, attempted,
                   emit_errors, result, trackedPrev, obsPrev, completed>>
    /\ UNCHANGED running
    /\ UNCHANGED <<metricsVars, stopVars>>

----------------------------------------------------------------------------
(* events.rs: ServiceStatusInfo, ServiceEvent *)

ServiceStatusInfo(name, status, enabled, last_check) ==
    [name |-> name, status |-> status, enabled |-> enabled, last_check |-> last_check]

StatusChanged(service_name, old_status, new_status, ts) ==
    [type |-> "StatusChanged", service_name |-> service_name,
     old_status |-> old_status, new_status |-> new_status, timestamp |-> ts]

ServiceAdded(service_name, status, ts) ==
    [type |-> "ServiceAdded", service_name |-> service_name,
     status |-> status, timestamp |-> ts]

ServiceRemoved(service_name, ts) ==
    [type |-> "ServiceRemoved", service_name |-> service_name, timestamp |-> ts]

----------------------------------------------------------------------------
(* events.rs: check_service_changes *)

\* tracked_services.iter().filter(|ts| ts.enabled)
EnabledServices(rows) == SelectSeq(rows, LAMBDA ts : ts.enabled)

\* variant: the Err arm keeps the service enabled
StatusInfoOf_ErrEnabled(tracked_name, res, ts) ==
    IF res.ok
    THEN ServiceStatusInfo(res.name, res.status, res.enabled, ts)
    ELSE ServiceStatusInfo(tracked_name, Unknown, TRUE, ts)

\* the entry pushed for one enabled service: the Ok arm takes name, status
\* and enabled from the Service, the Err arm records Unknown with
\* enabled = false
StatusInfoOf(tracked_name, res, ts) ==
    IF res.ok
    THEN ServiceStatusInfo(res.name, res.status, res.enabled, ts)
    ELSE ServiceStatusInfo(tracked_name, Unknown, FALSE, ts)

\* last_statuses.iter().find(|s| s.name == name): position of the first
\* entry of that name, 0 for None
FindByName(statuses, name) ==
    IF \E i \in DOMAIN statuses : statuses[i].name = name
    THEN CHOOSE i \in DOMAIN statuses :
            /\ statuses[i].name = name
            /\ \A j \in 1..(i - 1) : statuses[j].name # name
    ELSE 0

\* variant: the whole entries are compared
StatusDiffers_WholeEntry(last, current) == last # current

\* if last.status != current.status
StatusDiffers(last, current) == last.status # current.status

\* variant: old_status is taken from the current entry
StatusChangedEvent_OldFromCurrent(last, current, ts) ==
    StatusChanged(current.name, DebugFmt(current.status), DebugFmt(current.status), ts)

StatusChangedEvent(last, current, ts) ==
    StatusChanged(current.name, DebugFmt(last.status), DebugFmt(current.status), ts)

\* variant: a new service is announced as Stopped
ServiceAddedEvent_Stopped(current, ts) ==
    ServiceAdded(current.name, DebugFmt(Stopped), ts)

ServiceAddedEvent(current, ts) ==
    ServiceAdded(current.name, DebugFmt(current.status), ts)

ServiceRemovedEvent(last, ts) == ServiceRemoved(last.name, ts)

\* variant: an entry without a previous one emits nothing
CompareOne_SkipsNew(current, last_statuses, ts) ==
    LET k == FindByName(last_statuses, current.name) IN
    IF k # 0 /\ last_statuses[k].status # current.status
    THEN <<StatusChanged(current.name, DebugFmt(last_statuses[k].status),
                         DebugFmt(current.status), ts)>>
    ELSE <<>>

\* variant: a change to Unknown is not reported
CompareOne_IgnoresUnknown(current, last_statuses, ts) ==
    LET k == FindByName(last_statuses, current.name) IN
    IF k # 0
    THEN IF StatusDiffers(last_statuses[k], current) /\ current.status # Unknown
         THEN <<StatusChangedEvent(last_statuses[k], current, ts)>>
         ELSE <<>>
    ELSE <<ServiceAddedEvent(current, ts)>>

\* body of `for current in &current_statuses`: the events of one entry
CompareOne(current, last_statuses, ts) ==
    LET k == FindByName(last_statuses, current.name) IN
    IF k # 0
    THEN IF StatusDiffers(last_statuses[k], current)
         THEN <<StatusChangedEvent(last_statuses[k], current, ts)>>
         ELSE <<>>
    ELSE <<ServiceAddedEvent(current, ts)>>

RECURSIVE CompareCurrent(_, _, _, _)
\* for current in &current_statuses, from position i on
CompareCurrent(current, last_statuses, ts, i) ==
    IF i > Len(current)
    THEN <<>>
    ELSE CompareOne(current[i], last_statuses, ts)
         \o CompareCurrent(current, last_statuses, ts, i + 1)

RECURSIVE CheckRemoved_All(_, _, _, _)
\* variant: `all` in the place of `any`
CheckRemoved_All(current, last_statuses, ts, i) ==
    IF i > Len(last_statuses)
    THEN <<>>
    ELSE (IF ~(\A j \in DOMAIN current : current[j].name = last_statuses[i].name)
          THEN <<ServiceRemoved(last_statuses[i].name, ts)>>
          ELSE <<>>)
         \o CheckRemoved_All(current, last_statuses, ts, i + 1)

RECURSIVE CheckRemoved(_, _, _, _)
\* for last in last_statuses.iter(), from position i on
CheckRemoved(current, last_statuses, ts, i) ==
    IF i > Len(last_statuses)
    THEN <<>>
    ELSE (IF ~(\E j \in DOMAIN current : current[j].name = last_statuses[i].name)
          THEN <<ServiceRemovedEvent(last_statuses[i], ts)>>
          ELSE <<>>)
         \o CheckRemoved(current, last_statuses, ts, i + 1)

\* variant: the removed services are looked for first
CycleEvents_RemovedFirst(current, last_statuses, ts) ==
    CheckRemoved(current, last_statuses, ts, 1)
    \o CompareCurrent(current, last_statuses, ts, 1)

\* the events the two loops build, in the order they build them
CycleEvents(current, last_statuses, ts) ==
    CompareCurrent(current, last_statuses, ts, 1)
    \o CheckRemoved(current, last_statuses, ts, 1)

\* variant: the first Err ends the emitting
EmitAll_StopsAtError(events, errors) ==
    IF errors = {}
    THEN events
    ELSE SubSeq(events, 1, CHOOSE i \in errors : \A j \in errors : i <= j)

\* the events handed to app_handle.emit when the emits at positions
\* `errors` return Err: an Err is logged and the loops go on
EmitAll(events, errors) == events

\* variant: the entries of names missing from the snapshot are kept
UpdatedLastStatuses_Merges(last_statuses, current) ==
    current \o SelectSeq(last_statuses,
                         LAMBDA l : \A j \in DOMAIN current : current[j].name # l.name)

\* variant: the table is not replaced
UpdatedLastStatuses_Keeps(last_statuses, current) == last_statuses

\* *last_statuses = current_statuses
UpdatedLastStatuses(last_statuses, current) == current

NoObservation == [n \in Names |-> NotQueried]

\* variant: every tick starts a call, whether or not the last one returned
Tick_StartsWithoutWaiting ==
    /\ clock < MaxCycles
    /\ running < 2
    /\ pc' = "fetch"
    /\ UNCHANGED <<tracked, tracked_services, current_statuses, timestamp,
                   last_known_statuses, clock, observed, prior, attempted,
                   emit_errors, result, trackedPrev, obsPrev, completed>>
    /\ running' = running + 1
    /\ UNCHANGED <<metricsVars, stopVars>>

\* interval.tick().await returns: the loop body starts a cycle
Tick ==
    /\ pc = "tick"
    /\ clock < MaxCycles
    /\ pc' = "fetch"
    /\ UNCHANGED <<tracked, tracked_services, current_statuses, timestamp,
                   last_known_statuses, clock, observed, prior, attempted,
                   emit_errors, result, trackedPrev, obsPrev, completed>>
    /\ running' = running + 1
    /\ UNCHANGED <<metricsVars, stopVars>>

\* db.get_tracked_services() returns Ok: the rows are copied, the timestamp
\* of the cycle is taken
FetchTracked ==
    /\ pc = "fetch"
    /\ tracked_services' = tracked
    /\ clock' = clock + 1
    /\ timestamp' = clock + 1
    /\ pc' = "query"
    /\ UNCHANGED <<tracked, current_statuses, last_known_statuses, observed,
                   prior, attempted, emit_errors, result, trackedPrev, obsPrev,
                   completed>>
    /\ UNCHANGED running
    /\ UNCHANGED <<metricsVars, stopVars>>

\* variant: a failed fetch clears the table
FetchFailed_ClearsTable ==
    /\ pc = "fetch"
    /\ result' = "err"
    /\ pc' = "returned"
    /\ last_known_statuses' = <<>>
    /\ UNCHANGED <<tracked, tracked_services, current_statuses, timestamp,
                   clock, observed, prior, attempted, emit_errors, trackedPrev,
                   obsPrev, completed>>
    /\ running' = running - 1
    /\ UNCHANGED <<metricsVars, stopVars>>

\* db.get_tracked_services() returns Err: return Err(Box::new(e))
FetchFailed ==
    /\ pc = "fetch"
    /\ result' = "err"
    /\ pc' = "returned"
    /\ UNCHANGED <<tracked, tracked_services, current_statuses, timestamp,
                   last_known_statuses, clock, observed, prior, attempted,
                   emit_errors, trackedPrev, obsPrev, completed>>
    /\ running' = running - 1
    /\ UNCHANGED <<metricsVars, stopVars>>

\* one iteration of `for tracked_service in enabled_services`: the unit is
\* in some state, the query reads it, one entry is pushed
QueryService ==
    /\ pc = "query"
    /\ Len(current_statuses) < Len(EnabledServices(tracked_services))
    /\ LET ts == EnabledServices(tracked_services)[Len(current_statuses) + 1] IN
       \E unit \in UnitStates :
            /\ current_statuses' =
                    Append(current_statuses,
                           StatusInfoOf(ts.name,
                                        get_service_status_internal(ts.name, unit),
                                        timestamp))
            /\ observed' = [observed EXCEPT ![ts.name] = unit]
    /\ UNCHANGED <<tracked, pc, tracked_services, timestamp, last_known_statuses,
                   clock, prior, attempted, emit_errors, result, trackedPrev,
                   obsPrev, completed>>
    /\ UNCHANGED running
    /\ UNCHANGED <<metricsVars, stopVars>>

\* variant: the table is replaced only if every emit returned Ok
CompareAndUpdate_KeepsTableOnEmitErr ==
    /\ pc = "query"
    /\ Len(current_statuses) = Len(EnabledServices(tracked_services))
    /\ LET events == CycleEvents(current_statuses, last_known_statuses, timestamp) IN
       \E errors \in SUBSET (DOMAIN events) :
            /\ attempted' = EmitAll(events, errors)
            /\ emit_errors' = errors
            /\ last_known_statuses' =
                    IF errors = {}
                    THEN UpdatedLastStatuses(last_known_statuses, current_statuses)
                    ELSE last_known_statuses
    /\ prior' = last_known_statuses
    /\ result' = "ok"
    /\ completed' = completed + 1
    /\ pc' = "returned"
    /\ UNCHANGED <<tracked, tracked_services, current_statuses, timestamp, clock,
                   observed, trackedPrev, obsPrev>>
    /\ running' = running - 1
    /\ UNCHANGED <<metricsVars, stopVars>>

\* variant: the comparison may start before the query loop is through
CompareAndUpdate_StartsEarly ==
    /\ pc = "query"
    /\ Len(current_statuses) <= Len(EnabledServices(tracked_services))
    /\ LET events == CycleEvents(current_statuses, last_known_statuses, timestamp) IN
       \E errors \in SUBSET (DOMAIN events) :
            /\ attempted' = EmitAll(events, errors)
            /\ emit_errors' = errors
    /\ prior' = last_known_statuses
    /\ last_known_statuses' = UpdatedLastStatuses(last_known_statuses, current_statuses)
    /\ result' = "ok"
    /\ completed' = completed + 1
    /\ pc' = "returned"
    /\ UNCHANGED <<tracked, tracked_services, current_statuses, timestamp, clock,
                   observed, trackedPrev, obsPrev>>
    /\ running' = running - 1
    /\ UNCHANGED <<metricsVars, stopVars>>

\* the comparison under the last_known_statuses lock: both loops, every
\* emit (each may return Err), the replacement of the table, Ok(())
CompareAndUpdate ==
    /\ pc = "query"
    /\ Len(current_statuses) = Len(EnabledServices(tracked_services))
    /\ LET events == CycleEvents(current_statuses, last_known_statuses, timestamp) IN
       \E errors \in SUBSET (DOMAIN events) :
            /\ attempted' = EmitAll(events, errors)
            /\ emit_errors' = errors
    /\ prior' = last_known_statuses
    /\ last_known_statuses' = UpdatedLastStatuses(last_known_statuses, current_statuses)
    /\ result' = "ok"
    /\ completed' = completed + 1
    /\ pc' = "returned"
    /\ UNCHANGED <<tracked, tracked_services, current_statuses, timestamp, clock,
                   observed, trackedPrev, obsPrev>>
    /\ running' = running - 1
    /\ UNCHANGED <<metricsVars, stopVars>>

\* variant: after an Err the loop starts over from an empty table
NextIteration_ResetsOnErr ==
    /\ pc = "returned"
    /\ pc' = "tick"
    /\ trackedPrev' = IF result = "ok" THEN tracked_services ELSE trackedPrev
    /\ obsPrev' = IF result = "ok" THEN observed ELSE obsPrev
    /\ tracked_services' = <<>>
    /\ current_statuses' = <<>>
    /\ timestamp' = 0
    /\ observed' = NoObservation
    /\ prior' = <<>>
    /\ attempted' = <<>>
    /\ emit_errors' = {}
    /\ result' = "none"
    /\ last_known_statuses' = IF result = "err" THEN <<>> ELSE last_known_statuses
    /\ UNCHANGED <<tracked, clock, completed>>
    /\ UNCHANGED running
    /\ UNCHANGED <<metricsVars, stopVars>>

\* variant: an Err of the call ends the loop
NextIteration_StopsOnErr ==
    /\ pc = "returned"
    /\ pc' = IF result = "err" THEN "stopped" ELSE "tick"
    /\ trackedPrev' = IF result = "ok" THEN tracked_services ELSE trackedPrev
    /\ obsPrev' = IF result = "ok" THEN observed ELSE obsPrev
    /\ tracked_services' = <<>>
    /\ current_statuses' = <<>>
    /\ timestamp' = 0
    /\ observed' = NoObservation
    /\ prior' = <<>>
    /\ attempted' = <<>>
    /\ emit_errors' = {}
    /\ result' = "none"
    /\ UNCHANGED <<tracked, last_known_statuses, clock, completed>>
    /\ UNCHANGED running
    /\ UNCHANGED <<metricsVars, stopVars>>

\* check_service_changes has returned; an Err is logged; the loop goes back
\* to interval.tick().await and the locals of the call are gone
NextIteration ==
    /\ pc = "returned"
    /\ pc' = "tick"
    /\ trackedPrev' = IF result = "ok" THEN tracked_services ELSE trackedPrev
    /\ obsPrev' = IF result = "ok" THEN observed ELSE obsPrev
    /\ tracked_services' = <<>>
    /\ current_statuses' = <<>>
    /\ timestamp' = 0
    /\ observed' = NoObservation
    /\ prior' = <<>>
    /\ attempted' = <<>>
    /\ emit_errors' = {}
    /\ result' = "none"
    /\ UNCHANGED <<tracked, last_known_statuses, clock, completed>>
    /\ UNCHANGED running
    /\ UNCHANGED <<metricsVars, stopVars>>

(***************************************************************************)
(* get_service_metrics (src/services.rs): process discovery by three       *)
(* strategies, then per-process aggregation.  A field of an OS reply that  *)
(* the code parses as a number is an integer here: v >= 0 is the text of   *)
(* the number v, a negative v is text that does not parse.  cpu readings   *)
(* are in tenths of a percent (20 is the text "2.0").                      *)
(***************************************************************************)

\* str::parse::<u32 / u64 / f32>: Ok(value) or Err
parse(v) == IF v >= 0 THEN [ok |-> TRUE, value |-> v] ELSE [ok |-> FALSE, value |-> 0]

\* Result::unwrap_or(0)
unwrap_or_0(r) == IF r.ok THEN r.value ELSE 0

\* whether all_pids.contains(&pid)
Contains(pids, pid) == \E i \in DOMAIN pids : pids[i] = pid

\* the units a call can name: one not installed, one installed
RequestedUnits ==
    {NotInstalled, [installed |-> TRUE, is_active |-> "active", is_enabled |-> TRUE]}

\* `systemctl show --property=MainPID`: whether the command ran, and the
\* values of the lines "MainPID=..." of its output
MainPidReplies ==
    {[spawned |-> FALSE, lines |-> <<>>]}
    \cup [spawned : {TRUE}, lines : {<<>>, <<0>>, <<-1>>, <<10>>}]

\* `systemctl show --property=ControlGroup` and the file cgroup.procs of the
\* path it names: whether the command ran, the path, whether the file could
\* be read, the lines of the file
NoCgroup == [spawned |-> FALSE, path |-> "", readable |-> FALSE, procs |-> <<>>]

CgroupReplies ==
    {NoCgroup}
    \cup [spawned : {TRUE}, path : {"", "/"}, readable : {TRUE}, procs : {<<11>>}]
    \cup {[spawned |-> TRUE, path |-> "/system.slice/db.service",
           readable |-> FALSE, procs |-> <<>>]}
    \cup [spawned : {TRUE}, path : {"/system.slice/db.service"}, readable : {TRUE},
          procs : {<<>>, <<0, -1>>, <<10>>, <<11>>, <<10, 11>>, <<11, 11>>}]

\* `pgrep -f <service_name>`: whether the command ran, the lines of its output
PgrepReplies ==
    {[spawned |-> FALSE, lines |-> <<>>]}
    \cup [spawned : {TRUE}, lines : {<<>>, <<0, -1>>, <<12>>, <<10, 10>>}]

NoDiscovery == [main_pid |-> [spawned |-> FALSE, lines |-> <<>>],
                control_group |-> NoCgroup,
                pgrep |-> [spawned |-> FALSE, lines |-> <<>>]]

\* lines 883-893: every MainPID= line that parses to a positive pid is pushed
RECURSIVE PushMainPid(_, _)
PushMainPid(pids, lines) ==
    IF lines = <<>> THEN pids
    ELSE PushMainPid(IF parse(Head(lines)).ok /\ parse(Head(lines)).value > 0
                     THEN Append(pids, parse(Head(lines)).value)
                     ELSE pids,
                     Tail(lines))

\* lines 907-913 without the contains test
RECURSIVE PushCgroupProcs_NoContains(_, _)
PushCgroupProcs_NoContains(pids, lines) ==
    IF lines = <<>> THEN pids
    ELSE PushCgroupProcs_NoContains(
             IF parse(Head(lines)).ok /\ parse(Head(lines)).value > 0
             THEN Append(pids, parse(Head(lines)).value)
             ELSE pids,
             Tail(lines))

\* lines 907-913: a cgroup.procs line that parses to a positive pid is pushed
\* unless all_pids already contains it
RECURSIVE PushCgroupProcs(_, _)
PushCgroupProcs(pids, lines) ==
    IF lines = <<>> THEN pids
    ELSE PushCgroupProcs(
             IF /\ parse(Head(lines)).ok
                /\ parse(Head(lines)).value > 0
                /\ ~Contains(pids, parse(Head(lines)).value)
             THEN Append(pids, parse(Head(lines)).value)
             ELSE pids,
             Tail(lines))

\* lines 929-935: every pgrep line that parses to a positive pid is pushed
RECURSIVE PushPgrep(_, _)
PushPgrep(pids, lines) ==
    IF lines = <<>> THEN pids
    ELSE PushPgrep(IF parse(Head(lines)).ok /\ parse(Head(lines)).value > 0
                   THEN Append(pids, parse(Head(lines)).value)
                   ELSE pids,
                   Tail(lines))

\* lines 865-872 and 996: the counters before any process is read
ZeroMetrics == [cpu_usage |-> 0, memory_usage |-> 0, process_count |-> 0,
                open_files |-> 0, network_in |-> 0, network_out |-> 0,
                disk_read |-> 0, disk_write |-> 0, memory_total |-> 0]

NoReply == [kind |-> "none"]

\* `ps -p <pid> -o pcpu,rss,nlwp`: whether the command ran, the number of
\* lines it printed, the whitespace-separated fields of the second line
PsReplies ==
    {[kind |-> "ps", spawned |-> FALSE, nlines |-> 0, fields |-> <<>>]}
    \cup {[kind |-> "ps", spawned |-> TRUE, nlines |-> 1, fields |-> <<>>]}
    \cup [kind : {"ps"}, spawned : {TRUE}, nlines : {2},
          fields : {<<20, 1000>>, <<20, 1000, 1>>, <<-1, -1, -1>>, <<0, 500, 3>>}]

\* `lsof -p <pid>`: whether the command ran, the number of lines it printed
LsofReplies ==
    {[kind |-> "lsof", spawned |-> FALSE, nlines |-> 0]}
    \cup [kind : {"lsof"}, spawned : {TRUE}, nlines : {0, 1, 4}]

\* interface names of /proc/<pid>/net/dev, character by character
Lo == <<"l", "o", ":">>
LoMerged == <<"l", "o", ":", "7">>
Eth0 == <<"e", "t", "h", "0", ":">>
InterHeader == <<"I", "n", "t", "e", "r", "-", "|">>
FaceHeader == <<"f", "a", "c", "e">>

\* one line of /proc/<pid>/net/dev: its first field, the number of its
\* fields, its second field (received bytes), its tenth (transmitted bytes)
NetLine(name, nfields, rx, tx) ==
    [name |-> name, nfields |-> nfields, rx |-> rx, tx |-> tx]

NetHeaders == <<NetLine(InterHeader, 4, -1, -1), NetLine(FaceHeader, 17, -1, -1)>>

\* /proc/<pid>/net/dev: whether it could be read, its lines
NetReplies ==
    {[kind |-> "net", readable |-> FALSE, lines |-> <<>>]}
    \cup [kind : {"net"}, readable : {TRUE},
          lines : {NetHeaders,
                   <<NetLine(Eth0, 17, 100, 200)>>,
                   NetHeaders \o <<NetLine(Lo, 17, 5, 5), NetLine(Eth0, 17, 100, 200)>>,
                   NetHeaders \o <<NetLine(LoMerged, 16, 3, 3), NetLine(Eth0, 17, 100, 200)>>,
                   NetHeaders \o <<NetLine(Eth0, 9, 100, -1)>>,
                   NetHeaders \o <<NetLine(Eth0, 17, -1, 200)>>}]

\* one line of /proc/<pid>/io: the text up to and including ": ", the rest
IoLine(key, value) == [key |-> key, value |-> value]

\* /proc/<pid>/io: whether it could be read, its lines
IoReplies ==
    {[kind |-> "io", readable |-> FALSE, lines |-> <<>>]}
    \cup [kind : {"io"}, readable : {TRUE},
          lines : {<<>>,
                   <<IoLine("rchar: ", 7), IoLine("read_bytes: ", 4096),
                     IoLine("write_bytes: ", 8192)>>,
                   <<IoLine("read_bytes: ", -1), IoLine("write_bytes: ", 8192)>>}]

\* /proc/meminfo: whether it could be read, and of each line the first
\* field and the fields after it
MeminfoReplies ==
    {[kind |-> "meminfo", readable |-> FALSE, lines |-> <<>>]}
    \cup [kind : {"meminfo"}, readable : {TRUE},
          lines : {<<[key |-> "MemFree:", rest |-> <<8000>>]>>,
                   <<[key |-> "MemTotal:", rest |-> <<>>],
                     [key |-> "MemTotal:", rest |-> <<16000>>],
                     [key |-> "MemTotal:", rest |-> <<32000>>]>>,
                   <<[key |-> "MemTotal:", rest |-> <<-1>>]>>}]

\* str::starts_with
StartsWith(s, prefix) ==
    /\ Len(s) >= Len(prefix)
    /\ SubSeq(s, 1, Len(prefix)) = prefix

\* Iterator::skip(n)
Skip(lines, n) == SubSeq(lines, n + 1, Len(lines))

\* usize::saturating_sub
saturating_sub(a, b) == IF a >= b THEN a - b ELSE 0

\* lines 943-958: cpu, resident memory and thread count of one ps reply
AddPs(m, r) ==
    IF r.spawned /\ r.nlines > 1 /\ Len(r.fields) >= 3
    THEN [m EXCEPT !.cpu_usage = @ + unwrap_or_0(parse(r.fields[1])),
                   !.memory_usage = @ + unwrap_or_0(parse(r.fields[2])) * 1024,
                   !.process_count = @ + unwrap_or_0(parse(r.fields[3]))]
    ELSE m

\* lines 961-968: the lines of one lsof reply less its header
AddLsof(m, r) ==
    IF r.spawned
    THEN [m EXCEPT !.open_files = @ + saturating_sub(r.nlines, 1)]
    ELSE m

\* lines 973-979 without the test for "lo:"
RECURSIVE AddNetLines_CountsLoopback(_, _)
AddNetLines_CountsLoopback(m, lines) ==
    IF lines = <<>> THEN m
    ELSE AddNetLines_CountsLoopback(
             IF Head(lines).nfields >= 10
             THEN [m EXCEPT !.network_in = @ + unwrap_or_0(parse(Head(lines).rx)),
                            !.network_out = @ + unwrap_or_0(parse(Head(lines).tx))]
             ELSE m,
             Tail(lines))

\* lines 973-979: the lines of net/dev after the two headers, loopback excluded
RECURSIVE AddNetLines(_, _)
AddNetLines(m, lines) ==
    IF lines = <<>> THEN m
    ELSE AddNetLines(
             IF Head(lines).nfields >= 10 /\ ~StartsWith(Head(lines).name, Lo)
             THEN [m EXCEPT !.network_in = @ + unwrap_or_0(parse(Head(lines).rx)),
                            !.network_out = @ + unwrap_or_0(parse(Head(lines).tx))]
             ELSE m,
             Tail(lines))

\* lines 971-980: one read of /proc/<pid>/net/dev
AddNet(m, r) == IF r.readable THEN AddNetLines(m, Skip(r.lines, 2)) ELSE m

\* lines 985-991: the read_bytes and write_bytes lines of /proc/<pid>/io
RECURSIVE AddIoLines(_, _)
AddIoLines(m, lines) ==
    IF lines = <<>> THEN m
    ELSE AddIoLines(
             IF Head(lines).key = "read_bytes: "
             THEN [m EXCEPT !.disk_read = @ + unwrap_or_0(parse(Head(lines).value))]
             ELSE IF Head(lines).key = "write_bytes: "
             THEN [m EXCEPT !.disk_write = @ + unwrap_or_0(parse(Head(lines).value))]
             ELSE m,
             Tail(lines))

\* lines 983-992: one read of /proc/<pid>/io
AddIo(m, r) == IF r.readable THEN AddIoLines(m, r.lines) ELSE m

\* lines 997-1007: the first MemTotal: line with a second field that parses
RECURSIVE MemTotalOf(_)
MemTotalOf(lines) ==
    IF lines = <<>> THEN 0
    ELSE IF /\ Head(lines).key = "MemTotal:"
            /\ Head(lines).rest # <<>>
            /\ parse(Head(lines).rest[1]).ok
    THEN parse(Head(lines).rest[1]).value * 1024
    ELSE MemTotalOf(Tail(lines))

\* lines 996-1008: one read of /proc/meminfo
SetMemTotal(m, r) ==
    [m EXCEPT !.memory_total = IF r.readable THEN MemTotalOf(r.lines) ELSE 0]

\* the caller invokes the command: the unit it names and what the OS will
\* answer to the three pid queries of this call
CallMetrics ==
    /\ mpc = "idle"
    /\ \E unit \in RequestedUnits, mp \in MainPidReplies,
          cg \in CgroupReplies, pg \in PgrepReplies :
          /\ requested_unit' = unit
          /\ discovery' = [main_pid |-> mp, control_group |-> cg, pgrep |-> pg]
    /\ mpc' = "resolve"
    /\ UNCHANGED <<queries, all_pids, pid_index, reply, metrics, mresult>>
    /\ UNCHANGED <<pollerVars, stopVars>>

\* line 862 with the error of find_service_name ignored
ResolveName_GoesOn ==
    /\ mpc = "resolve"
    /\ mpc' = "main_pid"
    /\ metrics' = ZeroMetrics
    /\ all_pids' = <<>>
    /\ UNCHANGED <<requested_unit, discovery, queries, pid_index, reply, mresult>>
    /\ UNCHANGED <<pollerVars, stopVars>>

\* lines 862-875: find_service_name(..)?, then the counters and all_pids
ResolveName ==
    /\ mpc = "resolve"
    /\ IF find_service_name(requested_unit)
       THEN /\ mpc' = "main_pid"
            /\ metrics' = ZeroMetrics
            /\ all_pids' = <<>>
            /\ mresult' = mresult
       ELSE /\ mpc' = "done"
            /\ mresult' = "err"
            /\ UNCHANGED <<metrics, all_pids>>
    /\ UNCHANGED <<requested_unit, discovery, queries, pid_index, reply>>
    /\ UNCHANGED <<pollerVars, stopVars>>

\* lines 878-893: the MainPID query; a command that cannot be run is `?`
QueryMainPid ==
    /\ mpc = "main_pid"
    /\ queries' = queries \cup {"MainPID"}
    /\ IF discovery.main_pid.spawned
       THEN /\ all_pids' = PushMainPid(all_pids, discovery.main_pid.lines)
            /\ mpc' = "control_group"
            /\ mresult' = mresult
       ELSE /\ all_pids' = all_pids
            /\ mpc' = "done"
            /\ mresult' = "err"
    /\ UNCHANGED <<requested_unit, discovery, pid_index, reply, metrics>>
    /\ UNCHANGED <<pollerVars, stopVars>>

\* whether lines 896-905 get as far as reading cgroup.procs
ReadsCgroupProcs(cg) == cg.spawned /\ cg.path # "" /\ cg.path # "/"

\* lines 896-920: the ControlGroup query and the members of the control group
QueryCgroup ==
    /\ mpc = "control_group"
    /\ queries' = queries \cup {"ControlGroup"}
                    \cup (IF ReadsCgroupProcs(discovery.control_group)
                          THEN {"cgroup.procs"} ELSE {})
    /\ all_pids' = IF /\ ReadsCgroupProcs(discovery.control_group)
                      /\ discovery.control_group.readable
                   THEN PushCgroupProcs(all_pids, discovery.control_group.procs)
                   ELSE all_pids
    /\ mpc' = "pattern"
    /\ UNCHANGED <<requested_unit, discovery, pid_index, reply, metrics, mresult>>
    /\ UNCHANGED <<pollerVars, stopVars>>

\* lines 923-938 without the is_empty test
PatternSearch_Always ==
    /\ mpc = "pattern"
    /\ queries' = queries \cup {"pgrep"}
    /\ all_pids' = IF discovery.pgrep.spawned
                   THEN PushPgrep(all_pids, discovery.pgrep.lines)
                   ELSE all_pids
    /\ mpc' = "discovered"
    /\ UNCHANGED <<requested_unit, discovery, pid_index, reply, metrics, mresult>>
    /\ UNCHANGED <<pollerVars, stopVars>>

\* lines 923-938: pgrep, only if all_pids is still empty
PatternSearch ==
    /\ mpc = "pattern"
    /\ IF all_pids = <<>>
       THEN /\ queries' = queries \cup {"pgrep"}
            /\ all_pids' = IF discovery.pgrep.spawned
                           THEN PushPgrep(all_pids, discovery.pgrep.lines)
                           ELSE all_pids
       ELSE UNCHANGED <<queries, all_pids>>
    /\ mpc' = "discovered"
    /\ UNCHANGED <<requested_unit, discovery, pid_index, reply, metrics, mresult>>
    /\ UNCHANGED <<pollerVars, stopVars>>

\* line 941: the loop over all_pids begins (or has nothing to go through);
\* the pid queries are over and their replies are forgotten
BeginAggregate ==
    /\ mpc = "discovered"
    /\ discovery' = NoDiscovery
    /\ IF all_pids = <<>>
       THEN /\ mpc' = "meminfo"
            /\ pid_index' = pid_index
       ELSE /\ mpc' = "ps"
            /\ pid_index' = 1
    /\ UNCHANGED <<requested_unit, queries, all_pids, reply, metrics, mresult>>
    /\ UNCHANGED <<pollerVars, stopVars>>

\* lines 943-958: ps for the current pid
ReadPs ==
    /\ mpc = "ps"
    /\ \E r \in PsReplies :
          /\ reply' = r
          /\ metrics' = AddPs(metrics, r)
    /\ queries' = queries \cup {"ps"}
    /\ mpc' = "lsof"
    /\ UNCHANGED <<requested_unit, discovery, all_pids, pid_index, mresult>>
    /\ UNCHANGED <<pollerVars, stopVars>>

\* lines 961-968: lsof for the current pid
ReadLsof ==
    /\ mpc = "lsof"
    /\ \E r \in LsofReplies :
          /\ reply' = r
          /\ metrics' = AddLsof(metrics, r)
    /\ queries' = queries \cup {"lsof"}
    /\ mpc' = "net"
    /\ UNCHANGED <<requested_unit, discovery, all_pids, pid_index, mresult>>
    /\ UNCHANGED <<pollerVars, stopVars>>

\* lines 971-980: /proc/<pid>/net/dev of the current pid
ReadNet ==
    /\ mpc = "net"
    /\ \E r \in NetReplies :
          /\ reply' = r
          /\ metrics' = AddNet(metrics, r)
    /\ queries' = queries \cup {"net"}
    /\ mpc' = "io"
    /\ UNCHANGED <<requested_unit, discovery, all_pids, pid_index, mresult>>
    /\ UNCHANGED <<pollerVars, stopVars>>

\* lines 983-993: /proc/<pid>/io of the current pid, then the next pid
ReadIo ==
    /\ mpc = "io"
    /\ \E r \in IoReplies :
          /\ reply' = r
          /\ metrics' = AddIo(metrics, r)
    /\ queries' = queries \cup {"io"}
    /\ IF pid_index < Len(all_pids)
       THEN /\ pid_index' = pid_index + 1
            /\ mpc' = "ps"
       ELSE /\ pid_index' = pid_index
            /\ mpc' = "meminfo"
    /\ UNCHANGED <<requested_unit, discovery, all_pids, mresult>>
    /\ UNCHANGED <<pollerVars, stopVars>>

\* lines 996-1022: /proc/meminfo, then Ok(SystemMetrics { .. })
ReadMeminfo ==
    /\ mpc = "meminfo"
    /\ \E r \in MeminfoReplies :
          /\ reply' = r
          /\ metrics' = SetMemTotal(metrics, r)
    /\ queries' = queries \cup {"meminfo"}
    /\ mpc' = "done"
    /\ mresult' = "ok"
    /\ UNCHANGED <<requested_unit, discovery, all_pids, pid_index>>
    /\ UNCHANGED <<pollerVars, stopVars>>

\* variant: a returning call resets the table of the monitoring task
ReturnMetrics_ClearsTable ==
    /\ mpc = "done"
    /\ mpc' = "idle"
    /\ requested_unit' = NotInstalled
    /\ discovery' = NoDiscovery
    /\ queries' = {}
    /\ all_pids' = <<>>
    /\ pid_index' = 0
    /\ reply' = NoReply
    /\ metrics' = ZeroMetrics
    /\ mresult' = "none"
    /\ last_known_statuses' = <<>>
    /\ UNCHANGED <<tracked, pc, tracked_services, current_statuses, timestamp,
                   clock, observed, prior, attempted, emit_errors, result,
                   trackedPrev, obsPrev, completed, running>>
    /\ UNCHANGED stopVars

\* the call is over: its locals are dropped, nothing of it is kept
ReturnMetrics ==
    /\ mpc = "done"
    /\ mpc' = "idle"
    /\ requested_unit' = NotInstalled
    /\ discovery' = NoDiscovery
    /\ queries' = {}
    /\ all_pids' = <<>>
    /\ pid_index' = 0
    /\ reply' = NoReply
    /\ metrics' = ZeroMetrics
    /\ mresult' = "none"
    /\ UNCHANGED <<pollerVars, stopVars>>

----------------------------------------------------------------------------
(* stop_all_services and the service list it walks                         *)

\* first token of an output line of `systemctl list-unit-files`: the text
\* before a trailing ".service" and that suffix, or the whole token
Token(stem, suffix) == [stem |-> stem, suffix |-> suffix]

\* the unit files the listing can show
UnitFiles == {Token("nginx", ".service"), Token("redis", ".service"),
              Token("systemd-journald", ".service")}

\* the column header line the listing starts with
HeaderLine == [unit |-> Token("UNIT", ""), state |-> "FILE"]

\* the unit-file state column
FileStates == {"enabled", "disabled"}

RECURSIVE Orderings(_)
\* the sequences that list each element of S once
Orderings(S) ==
    IF S = {} THEN {<<>>}
    ELSE UNION {{<<x>> \o rest : rest \in Orderings(S \ {x})} : x \in S}

\* what systemctl answers: the listing's lines, and is-active per service
Machines ==
    UNION {{[lines |-> <<HeaderLine>> \o [i \in DOMAIN order |->
                            [unit |-> order[i], state |-> state[order[i]]]],
             is_active |-> active]
                : order \in Orderings(listed),
                  state \in [UnitFiles -> FileStates],
                  active \in [{"nginx", "redis"} -> IsActiveOutputs]}
            : listed \in SUBSET UnitFiles}

NoMachine == [lines |-> <<>>,
              is_active |-> [n \in {"nginx", "redis"} |-> "inactive"]]

\* the names get_all_system_services leaves out
SkippedName(name) == name \in {"systemd-journald"}

\* str::cmp on the names of the model
NameRank(name) ==
    CASE name = "nginx" -> 1
      [] name = "redis" -> 2
      [] OTHER          -> 3

RECURSIVE SortByName(_)
\* sort_by(|a, b| a.name.cmp(&b.name)): stable, ascending
SortByName(s) ==
    IF s = <<>> THEN <<>>
    ELSE LET rest == SortByName(Tail(s))
             before == SelectSeq(rest,
                         LAMBDA e : NameRank(e.name) < NameRank(Head(s).name))
             after == SelectSeq(rest,
                         LAMBDA e : NameRank(e.name) >= NameRank(Head(s).name))
         IN before \o <<Head(s)>> \o after

\* the text get_all_system_services puts in "status"
StatusStr(real_status) ==
    <<"running", "stopped", "failed", "unknown">>[real_status + 1]

\* get_all_system_services: one JSON object per kept line, sorted by name
get_all_system_services(m) ==
    LET kept == SelectSeq(m.lines, LAMBDA l :
                    l.unit.suffix = ".service" /\ ~SkippedName(l.unit.stem))
        real_status(l) ==
            LET r == check_service_status([is_active |-> m.is_active[l.unit.stem]])
            IN IF r.ok THEN r.status ELSE Unknown
    IN SortByName([i \in DOMAIN kept |->
            [name |-> kept[i].unit.stem,
             service_name |-> kept[i].unit,
             status |-> StatusStr(real_status(kept[i])),
             enabled_status |-> kept[i].state,
             enabled |-> kept[i].state \in {"enabled", "static"}]])

\* limit.unwrap_or(6)
DefaultLimit == 6

\* get_services: the match on the "status" text of each JSON object
StatusOfStr(status_str) ==
    CASE status_str \in {"enabled", "static"} -> Stopped
      [] status_str = "disabled"              -> Stopped
      [] OTHER                                -> Unknown

\* get_services(limit, show_all) on the objects of get_all_system_services
get_services(all_system_services, limit, show_all) ==
    LET converted == SortByName([i \in DOMAIN all_system_services |->
                        [name |-> all_system_services[i].name,
                         service_name |-> all_system_services[i].service_name,
                         status |-> StatusOfStr(all_system_services[i].status),
                         enabled |-> all_system_services[i].enabled]])
        service_limit == IF show_all THEN Len(converted) ELSE limit
    IN SubSeq(converted, 1, IF service_limit < Len(converted)
                            THEN service_limit ELSE Len(converted))

\* the ways a stop_service call can end
StopOutcomes == {"not installed", "already stopped", "spawn error",
                 "stopped", "status error", "stop failed"}

\* stop_service: Ok(ServiceOperation) or Err(message)
stop_service(service_name, outcome) ==
    CASE outcome = "not installed" ->
            [ok |-> FALSE, e |-> "not installed"]
      [] outcome = "already stopped" ->
            [ok |-> TRUE, operation |-> [success |-> TRUE,
                message |-> "is already stopped", service |-> "None"]]
      [] outcome = "spawn error" ->
            [ok |-> FALSE, e |-> "Failed to execute command"]
      [] outcome = "stopped" ->
            [ok |-> TRUE, operation |-> [success |-> TRUE,
                message |-> "stopped successfully", service |-> service_name]]
      [] outcome = "status error" ->
            [ok |-> FALSE, e |-> "Failed to get updated status"]
      [] OTHER ->
            [ok |-> TRUE, operation |-> [success |-> FALSE,
                message |-> "Failed to stop", service |-> "None"]]

\* the match on stop_service's result
PushResult(rs, r) ==
    IF r.ok THEN Append(rs, r.operation)
    ELSE Append(rs, [success |-> FALSE, message |-> r.e, service |-> "None"])

\* the frontend invokes stop_all_services
CallStopAll ==
    /\ spc \in {"idle", "returned", "failed"}
    /\ spc' = "listing"
    /\ machine' \in Machines
    /\ services' = <<>>
    /\ service_index' = 0
    /\ stop_calls' = <<>>
    /\ results' = <<>>
    /\ UNCHANGED <<pollerVars, metricsVars>>

\* get_services(None, Some(true)).await? returns Err: systemctl could not
\* be run or exited with a failure
ListFails ==
    /\ spc = "listing"
    /\ spc' = "failed"
    /\ UNCHANGED <<machine, services, service_index, stop_calls, results>>
    /\ UNCHANGED <<pollerVars, metricsVars>>

\* let services = get_services(None, Some(true)).await?
GetServices ==
    /\ spc = "listing"
    /\ services' = get_services(get_all_system_services(machine),
                                DefaultLimit, TRUE)
    /\ spc' = "loop"
    /\ UNCHANGED <<machine, service_index, stop_calls, results>>
    /\ UNCHANGED <<pollerVars, metricsVars>>

\* one iteration of `for service in services`
StopNext ==
    /\ spc = "loop"
    /\ service_index < Len(services)
    /\ service_index' = service_index + 1
    /\ LET service == services[service_index + 1]
       IN IF service.status = Running
          THEN \E outcome \in StopOutcomes :
                  /\ stop_calls' = Append(stop_calls, service.name)
                  /\ results' = PushResult(results,
                                    stop_service(service.name, outcome))
          ELSE UNCHANGED <<stop_calls, results>>
    /\ UNCHANGED <<spc, machine, services>>
    /\ UNCHANGED <<pollerVars, metricsVars>>

\* Ok(results)
ReturnStopAll ==
    /\ spc = "loop"
    /\ service_index = Len(services)
    /\ spc' = "returned"
    /\ UNCHANGED <<machine, services, service_index, stop_calls, results>>
    /\ UNCHANGED <<pollerVars, metricsVars>>

\* EventManager::new and Database::new: empty table, no rows
Init ==
    /\ tracked = <<>>
    /\ pc = "tick"
    /\ tracked_services = <<>>
    /\ current_statuses = <<>>
    /\ timestamp = 0
    /\ last_known_statuses = <<>>
    /\ clock = 0
    /\ observed = NoObservation
    /\ prior = <<>>
    /\ attempted = <<>>
    /\ emit_errors = {}
    /\ result = "none"
    /\ trackedPrev = <<>>
    /\ obsPrev = NoObservation
    /\ completed = 0
    /\ running = 0
    /\ mpc = "idle"
    /\ requested_unit = NotInstalled
    /\ discovery = NoDiscovery
    /\ queries = {}
    /\ all_pids = <<>>
    /\ pid_index = 0
    /\ reply = NoReply
    /\ metrics = ZeroMetrics
    /\ mresult = "none"
    /\ spc = "idle"
    /\ machine = NoMachine
    /\ services = <<>>
    /\ service_index = 0
    /\ stop_calls = <<>>
    /\ results = <<>>

AddTracked == \E name \in Names, pos \in 1..(Cardinality(Names) + 1) :
                    add_tracked_service(name, pos)

RemoveTracked == \E name \in Names : remove_tracked_service(name)

UpdateEnabled == \E name \in Names, enabled \in BOOLEAN :
                    update_service_enabled(name, enabled)

Next ==
    \/ AddTracked
    \/ RemoveTracked
    \/ UpdateEnabled
    \/ Tick
    \/ FetchTracked
    \/ FetchFailed
    \/ QueryService
    \/ CompareAndUpdate
    \/ NextIteration

Spec == Init /\ [][Next]_vars

\* one get_service_metrics call after another, the monitoring task at rest
MetricsNext ==
    \/ CallMetrics
    \/ ResolveName
    \/ QueryMainPid
    \/ QueryCgroup
    \/ PatternSearch
    \/ BeginAggregate
    \/ ReadPs
    \/ ReadLsof
    \/ ReadNet
    \/ ReadIo
    \/ ReadMeminfo
    \/ ReturnMetrics

MetricsSpec == Init /\ [][MetricsNext]_vars

\* one stop_all_services call after another, the monitoring task at rest
StopAllNext ==
    \/ CallStopAll
    \/ ListFails
    \/ GetServices
    \/ StopNext
    \/ ReturnStopAll

StopAllSpec == Init /\ [][StopAllNext]_vars

(***************************************************************************)
(* The monitoring task and get_service_metrics calls side by side, on one  *)
(* machine: every call finds the same processes behind the same pid, and   *)
(* one service, "web", is tracked.                                         *)
(***************************************************************************)

\* what the machine answers about each pid, and its /proc/meminfo
OsPs ==
    [pid \in {10, 11, 12} |->
        IF pid = 10 THEN [kind |-> "ps", spawned |-> TRUE, nlines |-> 2, fields |-> <<0, 500, 3>>]
        ELSE IF pid = 11 THEN [kind |-> "ps", spawned |-> TRUE, nlines |-> 2, fields |-> <<20, 1000, 1>>]
        ELSE [kind |-> "ps", spawned |-> FALSE, nlines |-> 0, fields |-> <<>>]]

OsLsof ==
    [pid \in {10, 11, 12} |->
        IF pid = 10 THEN [kind |-> "lsof", spawned |-> TRUE, nlines |-> 4]
        ELSE IF pid = 11 THEN [kind |-> "lsof", spawned |-> FALSE, nlines |-> 0]
        ELSE [kind |-> "lsof", spawned |-> TRUE, nlines |-> 1]]

OsNet ==
    [pid \in {10, 11, 12} |->
        IF pid = 10
        THEN [kind |-> "net", readable |-> TRUE,
              lines |-> NetHeaders \o <<NetLine(Lo, 17, 5, 5), NetLine(Eth0, 17, 100, 200)>>]
        ELSE IF pid = 11
        THEN [kind |-> "net", readable |-> TRUE,
              lines |-> NetHeaders \o <<NetLine(Eth0, 17, -1, 200)>>]
        ELSE [kind |-> "net", readable |-> FALSE, lines |-> <<>>]]

OsIo ==
    [pid \in {10, 11, 12} |->
        IF pid = 10
        THEN [kind |-> "io", readable |-> TRUE,
              lines |-> <<IoLine("rchar: ", 7), IoLine("read_bytes: ", 4096),
                          IoLine("write_bytes: ", 8192)>>]
        ELSE IF pid = 11
        THEN [kind |-> "io", readable |-> FALSE, lines |-> <<>>]
        ELSE [kind |-> "io", readable |-> TRUE,
              lines |-> <<IoLine("read_bytes: ", -1), IoLine("write_bytes: ", 8192)>>]]

OsMeminfo ==
    [kind |-> "meminfo", readable |-> TRUE,
     lines |-> <<[key |-> "MemTotal:", rest |-> <<>>],
                 [key |-> "MemTotal:", rest |-> <<16000>>],
                 [key |-> "MemTotal:", rest |-> <<32000>>]>>]

\* what the pid queries answer for the services a call can name
OsDiscoveries ==
    {[main_pid |-> [spawned |-> TRUE, lines |-> <<10>>],
      control_group |-> [spawned |-> TRUE, path |-> "/system.slice/db.service",
                         readable |-> TRUE, procs |-> <<10, 11>>],
      pgrep |-> [spawned |-> TRUE, lines |-> <<12>>]],
     [main_pid |-> [spawned |-> TRUE, lines |-> <<0>>],
      control_group |-> NoCgroup,
      pgrep |-> [spawned |-> TRUE, lines |-> <<12>>]],
     [main_pid |-> [spawned |-> TRUE, lines |-> <<>>],
      control_group |-> [spawned |-> TRUE, path |-> "/", readable |-> TRUE, procs |-> <<11>>],
      pgrep |-> [spawned |-> FALSE, lines |-> <<>>]]}

\* a step of a call on this machine: the replies are the machine's
OnThisMachine ==
    /\ mpc = "idle" => discovery' \in OsDiscoveries
    /\ mpc = "ps" => reply' = OsPs[all_pids[pid_index]]
    /\ mpc = "lsof" => reply' = OsLsof[all_pids[pid_index]]
    /\ mpc = "net" => reply' = OsNet[all_pids[pid_index]]
    /\ mpc = "io" => reply' = OsIo[all_pids[pid_index]]
    /\ mpc = "meminfo" => reply' = OsMeminfo

\* a step of a get_service_metrics call on this machine
MetricsStep == MetricsNext /\ OnThisMachine

\* a step of the monitoring task or a database command, "web" the only
\* service ever tracked
PollerStep == Next /\ RowNames(tracked') \subseteq {"web"}

SharedNext ==
    \/ PollerStep
    \/ MetricsStep

SharedSpec == Init /\ [][SharedNext]_vars

\* the monitoring task under its scheduling: the interval keeps ticking,
\* every status query and every comparison comes to its end, the loop goes
\* back to its wait, and a fetch that is tried again and again succeeds in
\* the end
LiveSpec ==
    /\ Init
    /\ [][PollerStep]_vars
    /\ WF_vars(Tick)
    /\ SF_vars(FetchTracked)
    /\ WF_vars(QueryService)
    /\ WF_vars(CompareAndUpdate)
    /\ WF_vars(NextIteration)

----------------------------------------------------------------------------
(* Properties of a poll cycle.  "Emitted" is a call of app_handle.emit:   *)
(* the events of a cycle are `attempted`, those the sink refused are at   *)
(* the positions `emit_errors`.                                           *)

\* the cycle has returned Ok(()); its locals and `prior` are still in view
Completed == pc = "returned" /\ result = "ok"

InSnapshot(statuses, n) == \E i \in DOMAIN statuses : statuses[i].name = n

EntryOf(statuses, n) ==
    statuses[CHOOSE i \in DOMAIN statuses : statuses[i].name = n]

EventsFor(n, type) ==
    {i \in DOMAIN attempted :
        attempted[i].type = type /\ attempted[i].service_name = n}

EventsOf(n) == {i \in DOMAIN attempted : attempted[i].service_name = n}

\* the name of a status as the events are to carry it
StatusText(status) == <<"Running", "Stopped", "Failed", "Unknown">>[status + 1]

InBoth(n) == InSnapshot(prior, n) /\ InSnapshot(current_statuses, n)

\* C1: in a completed cycle, a name in the prior and the current snapshot
\* with different statuses gets exactly one StatusChanged event, whose
\* old_status is the prior and whose new_status is the current status.
C1_StatusChangedOnce ==
    Completed =>
        \A n \in Names :
            (InBoth(n) /\ EntryOf(prior, n).status # EntryOf(current_statuses, n).status)
            => /\ Cardinality(EventsFor(n, "StatusChanged")) = 1
               /\ \A i \in EventsFor(n, "StatusChanged") :
                    /\ attempted[i].old_status = StatusText(EntryOf(prior, n).status)
                    /\ attempted[i].new_status =
                            StatusText(EntryOf(current_statuses, n).status)

\* "web" was observed Stopped by the previous cycle and Running by this one
C1_Witness ==
    /\ Completed
    /\ InBoth("web")
    /\ EntryOf(prior, "web").status = Stopped
    /\ EntryOf(current_statuses, "web").status = Running

\* C2: a name in both snapshots with equal status gets no event of any
\* kind, also when the enabled flags or the check timestamps differ.
C2_EqualStatusNoEvent ==
    pc = "returned" =>
        \A n \in Names :
            (InBoth(n) /\ EntryOf(prior, n).status = EntryOf(current_statuses, n).status)
            => EventsOf(n) = {}

\* a service keeps its status while its enabled flag and check time change
C2_Witness ==
    /\ Completed
    /\ \E n \in Names :
        /\ InBoth(n)
        /\ EntryOf(prior, n).status = EntryOf(current_statuses, n).status
        /\ EntryOf(prior, n).enabled # EntryOf(current_statuses, n).enabled
        /\ EntryOf(prior, n).last_check # EntryOf(current_statuses, n).last_check

\* C3: in a completed cycle, a name in the current snapshot only gets
\* exactly one ServiceAdded event, with the current status, and no
\* StatusChanged event.
C3_AddedOnce ==
    Completed =>
        \A n \in Names :
            (InSnapshot(current_statuses, n) /\ ~InSnapshot(prior, n))
            => /\ Cardinality(EventsFor(n, "ServiceAdded")) = 1
               /\ \A i \in EventsFor(n, "ServiceAdded") :
                    attempted[i].status = StatusText(EntryOf(current_statuses, n).status)
               /\ EventsFor(n, "StatusChanged") = {}

\* a service appears next to one the previous cycle already recorded
C3_Witness ==
    /\ Completed
    /\ prior # <<>>
    /\ \E n \in Names : InSnapshot(current_statuses, n) /\ ~InSnapshot(prior, n)

\* C4: in a completed cycle, a name in the prior snapshot only gets exactly
\* one ServiceRemoved event and no StatusChanged event.
C4_RemovedOnce ==
    Completed =>
        \A n \in Names :
            (InSnapshot(prior, n) /\ ~InSnapshot(current_statuses, n))
            => /\ Cardinality(EventsFor(n, "ServiceRemoved")) = 1
               /\ EventsFor(n, "StatusChanged") = {}

\* "cache" was recorded by the previous cycle and is no longer tracked
C4_Witness ==
    /\ Completed
    /\ InSnapshot(prior, "cache")
    /\ "cache" \notin RowNames(tracked_services)

SameRows(rows1, rows2) ==
    {rows1[i] : i \in DOMAIN rows1} = {rows2[i] : i \in DOMAIN rows2}

\* C5: a completed cycle that fetched the same tracked set (names and
\* enabled flags) and read the same unit states as the completed cycle
\* before it emits no event.
C5_Idempotent ==
    (Completed /\ completed >= 2
        /\ SameRows(tracked_services, trackedPrev) /\ observed = obsPrev)
    => attempted = <<>>

\* the second of two equal cycles over a running and a missing service
C5_Witness ==
    /\ Completed
    /\ completed >= 2
    /\ SameRows(tracked_services, trackedPrev)
    /\ observed = obsPrev
    /\ Len(current_statuses) = 2
    /\ \E i \in DOMAIN current_statuses : current_statuses[i].status = Running

\* C6: a cycle whose fetch of the tracked services fails returns an error,
\* emits nothing and leaves last_known_statuses as it was before the cycle.
C6_FailedFetchKeepsTable ==
    /\ [](result = "err" => pc = "returned" /\ attempted = <<>>)
    /\ [][((pc = "tick" /\ pc' = "fetch") \/ (pc = "fetch" /\ pc' = "returned"))
            => /\ last_known_statuses' = last_known_statuses
               /\ attempted' = <<>>
               /\ (pc = "fetch" => result' = "err")]_vars

\* a fetch fails while the table holds the snapshot of an earlier cycle
C6_Witness ==
    /\ pc = "returned"
    /\ result = "err"
    /\ last_known_statuses # <<>>

\* C7: no event of any kind is emitted for a tracked service whose enabled
\* flag is false in the rows the cycle fetched, whatever the previous
\* cycle recorded for it.
C7_DisabledInvisible ==
    pc = "returned" =>
        \A i \in DOMAIN tracked_services :
            ~tracked_services[i].enabled => EventsOf(tracked_services[i].name) = {}

\* the unit states for which get_service_status_internal returns Err
QueryFails(unit) == ~unit.installed \/ unit.is_active = "spawn-error"

\* C8: a failing status query does not abort the cycle: the cycle returns
\* an error only when the fetch failed; a completed cycle has queried every
\* enabled tracked service and recorded one entry for each, in the order
\* fetched, Unknown with enabled = false where the query failed; and the
\* table is replaced by that snapshot.
C8_QueryFailureRecorded ==
    /\ result = "err" => (current_statuses = <<>> /\ observed = NoObservation)
    /\ Completed =>
        LET enabled_services == EnabledServices(tracked_services) IN
        /\ Len(current_statuses) = Len(enabled_services)
        /\ \A i \in DOMAIN enabled_services :
            LET n == enabled_services[i].name IN
            /\ current_statuses[i].name = n
            /\ observed[n] \in UnitStates
            /\ QueryFails(observed[n])
                => (current_statuses[i].status = Unknown
                    /\ current_statuses[i].enabled = FALSE)
            /\ ~QueryFails(observed[n])
                => current_statuses[i].enabled = observed[n].is_enabled
        /\ last_known_statuses = current_statuses

\* the query of the first service fails, the second is recorded as running
C8_Witness ==
    /\ Completed
    /\ Len(current_statuses) = 2
    /\ QueryFails(observed[current_statuses[1].name])
    /\ current_statuses[2].status = Running
    /\ current_statuses[2].enabled

\* the prior and the current snapshot differ on the name
NeedsEvent(n) ==
    \/ InSnapshot(prior, n) /\ ~InSnapshot(current_statuses, n)
    \/ ~InSnapshot(prior, n) /\ InSnapshot(current_statuses, n)
    \/ InBoth(n) /\ EntryOf(prior, n).status # EntryOf(current_statuses, n).status

\* C9: an emit that returns Err blocks nothing: the cycle still returns Ok,
\* every name that needs an event still has its event passed to emit, the
\* table is replaced, and the loop goes back to wait for the next tick.
C9_EmitErrorBlocksNothing ==
    /\ [](emit_errors # {} =>
            /\ Completed
            /\ \A n \in Names : NeedsEvent(n) => Cardinality(EventsOf(n)) = 1
            /\ last_known_statuses = current_statuses)
    /\ [][(pc = "returned" /\ emit_errors # {}) =>
            (pc' = "tick" /\ last_known_statuses' = last_known_statuses)]_vars

\* the first of two events is refused by the sink
C9_Witness ==
    /\ Completed
    /\ 1 \in emit_errors
    /\ 2 \notin emit_errors
    /\ Len(attempted) = 2

Rank(type) ==
    CASE type = "StatusChanged"  -> 1
      [] type = "ServiceAdded"   -> 2
      [] type = "ServiceRemoved" -> 3

\* C10 as claimed: within a cycle every StatusChanged event is emitted
\* before every ServiceAdded event, and every ServiceAdded before every
\* ServiceRemoved.
C10_ChangedAddedRemoved ==
    \A i, j \in DOMAIN attempted :
        i < j => Rank(attempted[i].type) <= Rank(attempted[j].type)

PositionIn(statuses, n) == CHOOSE i \in DOMAIN statuses : statuses[i].name = n

\* C10 amended: within a cycle the StatusChanged and ServiceAdded events
\* are emitted together, in the order of their services in the current
\* snapshot, and every ServiceRemoved event is emitted after all of them.
C10_CurrentOrderThenRemoved ==
    pc = "returned" =>
        \A i, j \in DOMAIN attempted :
            i < j =>
                /\ attempted[i].type = "ServiceRemoved"
                    => attempted[j].type = "ServiceRemoved"
                /\ attempted[j].type # "ServiceRemoved"
                    => PositionIn(current_statuses, attempted[i].service_name)
                        < PositionIn(current_statuses, attempted[j].service_name)

\* a ServiceAdded event is emitted before a StatusChanged event
C10_Witness ==
    /\ Completed
    /\ Len(attempted) = 2
    /\ attempted[1].type = "ServiceAdded"
    /\ attempted[2].type = "StatusChanged"

\* C11: poll cycles never overlap: at most one call of
\* check_service_changes is in progress, and a call starts only from the
\* loop's wait for the tick, after the call before it has returned; while
\* a call is in progress, however long, no other one starts.
C11_CyclesNeverOverlap ==
    /\ [](running <= 1)
    /\ [](running = 1 <=> pc \in {"fetch", "query"})
    /\ [][running' > running => (pc = "tick" /\ running = 0 /\ pc' = "fetch")]_vars

\* a second cycle is in progress after the first one has returned
C11_Witness ==
    /\ pc = "query"
    /\ running = 1
    /\ completed = 1
    /\ current_statuses # <<>>

\* C12: no error ends the monitoring loop: from every return of
\* check_service_changes, Ok or Err, the loop goes back to wait for the
\* tick, the loop is never anywhere else than waiting or in a cycle, and a
\* waiting loop can start the next cycle.
C12_LoopNeverExits ==
    /\ [](pc \in {"tick", "fetch", "query", "returned"})
    /\ []((pc = "tick" /\ clock < MaxCycles) => ENABLED Tick)
    /\ [][pc = "returned" => pc' = "tick"]_vars

\* a cycle has failed at the fetch after an earlier one was degraded by a
\* failed status query
C12_Witness ==
    /\ pc = "returned"
    /\ result = "err"
    /\ \E i \in DOMAIN last_known_statuses :
            last_known_statuses[i].status = Unknown

(***************************************************************************)
(* Claims about get_service_metrics, checked under MetricsSpec.            *)
(***************************************************************************)

\* the service name of the call resolves to an installed unit
Resolves == requested_unit.installed

\* the call has gone past find_service_name
PastResolve == mpc \notin {"idle", "resolve"}

\* the eight counters of the snapshot are zero
CountersZero ==
    /\ metrics.cpu_usage = 0
    /\ metrics.memory_usage = 0
    /\ metrics.network_in = 0
    /\ metrics.network_out = 0
    /\ metrics.disk_read = 0
    /\ metrics.disk_write = 0
    /\ metrics.open_files = 0
    /\ metrics.process_count = 0

\* C13: when the service name does not resolve to an installed unit the call
\* ends with an error and no snapshot, having made no pid query and no
\* per-process read.
C13_UnresolvedFailsBeforeDiscovery ==
    (PastResolve /\ ~Resolves) =>
        /\ mpc = "done"
        /\ mresult = "err"
        /\ queries = {}
        /\ all_pids = <<>>
        /\ reply = NoReply

\* a call for a unit that is not installed has returned, on a machine where
\* the pid queries would have found processes
C13_Witness ==
    /\ mpc = "done"
    /\ ~Resolves
    /\ mresult = "err"
    /\ discovery.main_pid.lines = <<10>>
    /\ discovery.pgrep.lines = <<12>>

\* C14: whenever the service name resolves, the call returns a snapshot,
\* whichever of the other OS queries fail.
C14_ResolvedAlwaysSnapshot ==
    (mpc = "done" /\ Resolves) => mresult = "ok"

\* the positive pids among the lines of a reply
PositivePids(lines) == {lines[i] : i \in DOMAIN lines} \cap {v \in 1..99 : TRUE}

\* the pids the primary-pid strategy yields
PrimaryPids ==
    IF discovery.main_pid.spawned
    THEN PositivePids(discovery.main_pid.lines) ELSE {}

\* the pids the control-group strategy yields
CgroupPids ==
    IF /\ discovery.control_group.spawned
       /\ discovery.control_group.path \notin {"", "/"}
       /\ discovery.control_group.readable
    THEN PositivePids(discovery.control_group.procs) ELSE {}

\* the pids the pattern search finds
PatternPids ==
    IF discovery.pgrep.spawned
    THEN PositivePids(discovery.pgrep.lines) ELSE {}

\* the pids of the process set
FinalPids == {all_pids[i] : i \in DOMAIN all_pids}

\* discovery is over and the replies it worked on are still at hand
Discovered == mpc = "discovered"

\* C15: the pattern search is made, and its matches added, exactly when the
\* primary-pid and control-group strategies yielded no pid; when they
\* yielded one, no pid that only the pattern search finds is in the set.
C15_PatternSearchLastResort ==
    Discovered =>
        IF PrimaryPids \cup CgroupPids = {}
        THEN /\ "pgrep" \in queries
             /\ FinalPids = PatternPids
        ELSE /\ "pgrep" \notin queries
             /\ FinalPids \cap (PatternPids \ (PrimaryPids \cup CgroupPids)) = {}

\* strategies 1 and 2 found nothing and the pattern search supplied pid 12
C15_Witness ==
    /\ Discovered
    /\ PrimaryPids \cup CgroupPids = {}
    /\ discovery.control_group.readable
    /\ PatternPids = {12}
    /\ all_pids = <<12>>

\* C16 as stated: when the primary-pid lookup yields a positive pid, it is in
\* the final set and both the control-group strategy and the pattern search
\* are still run.
C16_LaterStrategiesStillRun ==
    (Discovered /\ PrimaryPids # {}) =>
        /\ PrimaryPids \subseteq FinalPids
        /\ "ControlGroup" \in queries
        /\ "pgrep" \in queries

\* a step of discovery keeps every entry of all_pids in place and appends
\* only ids that were not in it
OnlyAddsNew ==
    /\ Len(all_pids') >= Len(all_pids)
    /\ SubSeq(all_pids', 1, Len(all_pids)) = all_pids
    /\ \A i \in (Len(all_pids) + 1)..Len(all_pids') :
            \A j \in 1..(i - 1) : all_pids'[j] # all_pids'[i]

\* C16, amended: when the primary-pid lookup yields a positive pid, that pid
\* is the first entry of the final set, the control-group strategy is still
\* run and the pattern search is not; no step of discovery removes or
\* replaces an entry, and what is appended was not yet in the set.
C16_PrimaryPidKept ==
    /\ []((Discovered /\ PrimaryPids # {}) =>
            /\ all_pids # <<>>
            /\ all_pids[1] \in PrimaryPids
            /\ "ControlGroup" \in queries
            /\ "pgrep" \notin queries)
    /\ [][(mpc \in {"control_group", "pattern"} /\ PrimaryPids # {})
            => OnlyAddsNew]_vars

\* the primary pid 10 is also a member of the control group, which adds 11;
\* the pattern search would have found 12
C16_Witness ==
    /\ Discovered
    /\ PrimaryPids = {10}
    /\ discovery.control_group.procs = <<10, 11>>
    /\ PatternPids = {12}
    /\ all_pids = <<10, 11>>

\* C17: no pid occurs twice in the process set, whatever the three
\* strategies return.
C17_NoPidTwice ==
    \A i, j \in DOMAIN all_pids : i # j => all_pids[i] # all_pids[j]

\* none of the three strategies finds a process
NothingFound == PrimaryPids \cup CgroupPids \cup PatternPids = {}

\* C18: if the three strategies find no process for a unit that resolves,
\* the call returns a snapshot, not an error, with the eight counters zero;
\* and the process set is empty only if the three strategies found nothing.
C18_NothingFoundZeroSnapshot ==
    /\ Discovered => (all_pids = <<>> <=> NothingFound)
    /\ (mpc = "done" /\ Resolves /\ all_pids = <<>> /\ NothingFound) =>
            (mresult = "ok" /\ CountersZero)

\* C18 where the primary-pid query could be run: the same statement for the
\* calls that made all three queries
C18_AllQueriesMade ==
    (mpc = "done" /\ Resolves /\ all_pids = <<>> /\ "pgrep" \in queries) =>
        (mresult = "ok" /\ CountersZero)

\* a process's own readings: what one reply says of it, 0 where the source
\* could not be read or its text is not a number
OwnCpu(r) ==
    IF r.spawned /\ r.nlines >= 2 /\ Len(r.fields) >= 3 /\ r.fields[1] >= 0
    THEN r.fields[1] ELSE 0

OwnMemory(r) ==
    IF r.spawned /\ r.nlines >= 2 /\ Len(r.fields) >= 3 /\ r.fields[2] >= 0
    THEN r.fields[2] * 1024 ELSE 0

OwnOpenFiles(r) == IF r.spawned /\ r.nlines >= 1 THEN r.nlines - 1 ELSE 0

\* the name of the interface of a line: its first field up to the colon
InterfaceName(name) ==
    IF \E i \in DOMAIN name : name[i] = ":"
    THEN SubSeq(name, 1, (CHOOSE i \in DOMAIN name :
                            name[i] = ":" /\ \A j \in 1..(i - 1) : name[j] # ":") - 1)
    ELSE name

\* the line is that of the loopback interface, lo
IsLoopback(line) == InterfaceName(line.name) = <<"l", "o">>

\* the interface lines of a net/dev table: those after the two header lines
\* that are complete and are not the loopback interface
InterfaceLines(r) ==
    IF r.readable
    THEN {i \in 3..Len(r.lines) : r.lines[i].nfields >= 10 /\ ~IsLoopback(r.lines[i])}
    ELSE {}

RECURSIVE SumOf(_, _)
SumOf(f, S) ==
    IF S = {} THEN 0
    ELSE LET x == CHOOSE y \in S : TRUE
         IN (IF f[x] >= 0 THEN f[x] ELSE 0) + SumOf(f, S \ {x})

OwnNetworkIn(r) == SumOf([i \in InterfaceLines(r) |-> r.lines[i].rx], InterfaceLines(r))

OwnNetworkOut(r) == SumOf([i \in InterfaceLines(r) |-> r.lines[i].tx], InterfaceLines(r))

IoLinesOf(r, key) ==
    IF r.readable THEN {i \in DOMAIN r.lines : r.lines[i].key = key} ELSE {}

OwnDiskRead(r) ==
    SumOf([i \in IoLinesOf(r, "read_bytes: ") |-> r.lines[i].value],
          IoLinesOf(r, "read_bytes: "))

OwnDiskWrite(r) ==
    SumOf([i \in IoLinesOf(r, "write_bytes: ") |-> r.lines[i].value],
          IoLinesOf(r, "write_bytes: "))

\* the seven summed counters, process_count and memory_total left out
Summed(m) == <<m.cpu_usage, m.memory_usage, m.open_files, m.network_in,
               m.network_out, m.disk_read, m.disk_write>>

\* what one read of one source adds to the seven counters
Contribution ==
    CASE mpc = "ps" ->
            <<OwnCpu(reply'), OwnMemory(reply'), 0, 0, 0, 0, 0>>
      [] mpc = "lsof" ->
            <<0, 0, OwnOpenFiles(reply'), 0, 0, 0, 0>>
      [] mpc = "net" ->
            <<0, 0, 0, OwnNetworkIn(reply'), OwnNetworkOut(reply'), 0, 0>>
      [] mpc = "io" ->
            <<0, 0, 0, 0, 0, OwnDiskRead(reply'), OwnDiskWrite(reply')>>
      [] OTHER ->
            <<0, 0, 0, 0, 0, 0, 0>>

\* the counters start at zero, and every read of a source of an entry of
\* all_pids adds that entry's own reading to its counter and nothing to any
\* other
SumPerEntry ==
    /\ [](mpc \in {"main_pid", "control_group", "pattern", "discovered"}
            => Summed(metrics) = <<0, 0, 0, 0, 0, 0, 0>>)
    /\ [][(mpc \in {"main_pid", "control_group", "pattern", "discovered",
                    "ps", "lsof", "net", "io", "meminfo"})
            => (\A k \in 1..7 :
                    Summed(metrics')[k] = Summed(metrics)[k] + Contribution[k])]_vars
    /\ [][(mpc = "io" /\ mpc' = "ps") => pid_index' = pid_index + 1]_vars
    /\ [](mpc \in {"ps", "lsof", "net", "io"} => pid_index \in DOMAIN all_pids)
    /\ [](mpc = "meminfo" /\ all_pids # <<>> => pid_index = Len(all_pids))

\* no process is read twice: the entry being read is not an earlier entry's pid
EachProcessOnce ==
    [](mpc \in {"ps", "lsof", "net", "io"} =>
            \A j \in 1..(pid_index - 1) : all_pids[j] # all_pids[pid_index])

\* C19: each of the seven summed counters of the snapshot is the sum, over
\* the processes of the discovered set, of the process's own reading, an
\* unreadable or unparsable source counting 0 for that process only.
C19_SumOverProcesses == SumPerEntry /\ EachProcessOnce

\* C20: process_count of the snapshot is the number of discovered processes.
C20_ProcessCountIsSetSize ==
    (mpc = "done" /\ mresult = "ok") =>
        metrics.process_count = Cardinality(FinalPids)

\* the loopback lines of a net/dev table
LoopbackLines(r) == {i \in DOMAIN r.lines : IsLoopback(r.lines[i])}

\* the table with the byte counters of its loopback lines set to c
LoopbackSetTo(r, c) ==
    [r EXCEPT !.lines = [i \in DOMAIN r.lines |->
                            IF IsLoopback(r.lines[i])
                            THEN [r.lines[i] EXCEPT !.rx = c, !.tx = c]
                            ELSE r.lines[i]]]

\* C21: whatever a process's net/dev table holds, a read of it adds to
\* network_in and network_out the received and transmitted byte columns of
\* its non-loopback interface lines only: the counters of the loopback
\* lines add nothing, whatever their values.
C21_LoopbackExcluded ==
    /\ [][mpc = "net" =>
            /\ metrics'.network_in = metrics.network_in + OwnNetworkIn(reply')
            /\ metrics'.network_out = metrics.network_out + OwnNetworkOut(reply')]_vars
    /\ [](\A r \in NetReplies : \A c \in {0, 5, 1000} :
            AddNet(ZeroMetrics, LoopbackSetTo(r, c)) = AddNet(ZeroMetrics, r))

\* the first process's table has a loopback line with nonzero counters next
\* to eth0, and only eth0's bytes have been added
C21_Witness ==
    /\ mpc = "io"
    /\ pid_index = 1
    /\ reply.kind = "net"
    /\ \E i \in LoopbackLines(reply) : reply.lines[i].rx > 0 /\ reply.lines[i].tx > 0
    /\ metrics.network_in = 100
    /\ metrics.network_out = 200

\* the process set a call on its own finds from the replies to its pid queries
IsolatedPids(d) ==
    LET one == IF d.main_pid.spawned THEN PushMainPid(<<>>, d.main_pid.lines) ELSE <<>>
        two == IF ReadsCgroupProcs(d.control_group) /\ d.control_group.readable
               THEN PushCgroupProcs(one, d.control_group.procs) ELSE one
    IN  IF two # <<>> THEN two
        ELSE IF d.pgrep.spawned THEN PushPgrep(two, d.pgrep.lines) ELSE two

\* the counters a call on its own sums over a process set on this machine
RECURSIVE IsolatedSum(_, _)
IsolatedSum(m, pids) ==
    IF pids = <<>> THEN m
    ELSE IsolatedSum(AddIo(AddNet(AddLsof(AddPs(m, OsPs[Head(pids)]),
                                          OsLsof[Head(pids)]),
                                  OsNet[Head(pids)]),
                           OsIo[Head(pids)]),
                     Tail(pids))

\* the snapshot a call on its own returns for a process set on this machine
IsolatedSnapshot(pids) == SetMemTotal(IsolatedSum(ZeroMetrics, pids), OsMeminfo)

OneEntryPerName(statuses) ==
    \A i, j \in DOMAIN statuses : statuses[i].name = statuses[j].name => i = j

\* C23: in every reachable state the retained table, and the snapshot a
\* cycle is building or has built, hold at most one entry per service name.
C23_OneEntryPerName ==
    /\ OneEntryPerName(last_known_statuses)
    /\ OneEntryPerName(current_statuses)

\* a cycle has replaced a table of two services by a snapshot of two
C23_Witness ==
    /\ Completed
    /\ Len(prior) = 2
    /\ Len(current_statuses) = 2
    /\ last_known_statuses = current_statuses

\* an entry without its time of check
Untimed(entry) == [name |-> entry.name, status |-> entry.status, enabled |-> entry.enabled]

\* what a status query that reads `unit` reports: the status and enabled
\* flag systemctl gives, Unknown and false when the query fails
Reported(n, unit) ==
    IF ~unit.installed \/ unit.is_active = "spawn-error"
    THEN [name |-> n, status |-> Unknown, enabled |-> FALSE]
    ELSE [name |-> n,
          status |-> CASE unit.is_active = "active" -> Running
                       [] unit.is_active = "inactive" -> Stopped
                       [] unit.is_active = "failed" -> Failed
                       [] OTHER -> Unknown,
          enabled |-> unit.is_enabled]

\* the snapshot of a cycle that fetched `rows` and read the units `seen`
SnapshotOf(rows, seen) ==
    LET on == SelectSeq(rows, LAMBDA r : r.enabled)
    IN  [i \in DOMAIN on |-> Reported(on[i].name, seen[on[i].name])]

\* C24: after every completed cycle the retained table is exactly that
\* cycle's snapshot, every entry of it checked in that cycle; the table the
\* cycle compared with was the snapshot of the last cycle completed before
\* it (empty for the first); and the table changes at no other moment.
C24_OneGeneration ==
    /\ [](Completed =>
            /\ last_known_statuses = current_statuses
            /\ \A i \in DOMAIN last_known_statuses :
                    last_known_statuses[i].last_check = timestamp
            /\ [i \in DOMAIN current_statuses |-> Untimed(current_statuses[i])]
                    = SnapshotOf(tracked_services, observed)
            /\ [i \in DOMAIN prior |-> Untimed(prior[i])]
                    = IF completed >= 2 THEN SnapshotOf(trackedPrev, obsPrev) ELSE <<>>)
    /\ [][last_known_statuses' # last_known_statuses
            => (pc = "query" /\ Completed' /\ last_known_statuses' = current_statuses)]_vars

\* a later completed cycle no longer has a service the one before it recorded
C24_Witness ==
    /\ Completed
    /\ completed >= 2
    /\ current_statuses # <<>>
    /\ \E n \in Names : InSnapshot(prior, n) /\ ~InSnapshot(last_known_statuses, n)

\* the names of the enabled rows, in the order of the rows
EnabledNames(rows) ==
    LET on == SelectSeq(rows, LAMBDA r : r.enabled)
    IN  [i \in DOMAIN on |-> on[i].name]

\* C25: the comparison of a cycle starts only when the snapshot holds an
\* entry for every enabled service the cycle fetched; the table it compares
\* with is the one the last completed cycle wrote, whole; and the step that
\* reads the table is the step that replaces it, so in no state have the
\* events of a cycle been computed and the table not yet been replaced.
C25_WholeSnapshotsOneLock ==
    /\ [][(pc = "query" /\ pc' # "query") =>
            /\ [i \in DOMAIN current_statuses |-> current_statuses[i].name]
                    = EnabledNames(tracked_services)
            /\ \A n \in Names : observed[n] = NotQueried <=> ~InSnapshot(current_statuses, n)
            /\ prior' = last_known_statuses
            /\ last_known_statuses' = current_statuses]_vars
    /\ [][(pc # "query" \/ pc' = "query") =>
            last_known_statuses' = last_known_statuses]_vars
    /\ [](attempted # <<>> => (Completed /\ last_known_statuses = current_statuses))

\* the comparison of a snapshot of two services with a table of two has
\* emitted an event and replaced the table
C25_Witness ==
    /\ Completed
    /\ Len(current_statuses) = 2
    /\ Len(prior) = 2
    /\ attempted # <<>>
    /\ prior # last_known_statuses

\* the map an observer holds: for each name the status text, or "absent"
MapOf(statuses) ==
    [n \in Names |-> IF InSnapshot(statuses, n)
                     THEN StatusText(EntryOf(statuses, n).status)
                     ELSE "absent"]

\* the observer applies one event
Apply(map, e) ==
    CASE e.type = "ServiceAdded" -> [map EXCEPT ![e.service_name] = e.status]
      [] e.type = "StatusChanged" -> [map EXCEPT ![e.service_name] = e.new_status]
      [] e.type = "ServiceRemoved" -> [map EXCEPT ![e.service_name] = "absent"]

\* the observer applies the first k events of a sequence, in order
RECURSIVE ApplyFirst(_, _, _)
ApplyFirst(map, events, k) ==
    IF k = 0 THEN map
    ELSE Apply(ApplyFirst(map, events, k - 1), events[k])

\* C26: an observer that holds the map of the table a cycle started from
\* and applies the events of the cycle in order, none of them refused,
\* holds the map of the table the cycle leaves, and every StatusChanged
\* carries as old_status the status the observer held for that name; the
\* first cycle starts from the empty table, as the observer does.  By
\* induction over the completed cycles the observer mirrors the table.
C26_EventsMirrorTable ==
    /\ []((completed = 0 /\ pc # "returned") => last_known_statuses = <<>>)
    /\ []((Completed /\ emit_errors = {}) =>
            /\ ApplyFirst(MapOf(prior), attempted, Len(attempted))
                    = MapOf(last_known_statuses)
            /\ \A i \in DOMAIN attempted :
                    attempted[i].type = "StatusChanged" =>
                        attempted[i].old_status =
                            ApplyFirst(MapOf(prior), attempted, i - 1)[attempted[i].service_name])
    /\ [][IF completed' # completed
          THEN prior' = last_known_statuses
          ELSE MapOf(last_known_statuses') = MapOf(last_known_statuses)]_vars

\* a cycle has emitted a StatusChanged and a ServiceRemoved, both delivered
C26_Witness ==
    /\ Completed
    /\ emit_errors = {}
    /\ \E i, j \in DOMAIN attempted :
            /\ attempted[i].type = "StatusChanged"
            /\ attempted[j].type = "ServiceRemoved"

\* everything of the monitoring task but its position, the count of running
\* calls and the result of the call
CycleState == <<tracked, tracked_services, current_statuses, timestamp,
                last_known_statuses, clock, observed, prior, attempted,
                emit_errors, trackedPrev, obsPrev, completed>>

\* C27: a cycle that fails at the fetch leaves no trace: from the tick that
\* starts it to the next wait the state of the monitoring task is what it
\* was, so the next cycle that completes starts where it would have started
\* without the failed cycles.  That cycle compares with the snapshot of the
\* last completed cycle and emits exactly one event for every name whose
\* entry differs between the two snapshots (changed, added or removed in
\* the meantime) and none for any other name.
C27_RecoveryAfterFailedFetch ==
    /\ [][(pc = "tick" /\ pc' = "fetch") =>
            (UNCHANGED CycleState /\ result' = result)]_vars
    /\ [][(pc = "fetch" /\ pc' = "returned") =>
            (UNCHANGED CycleState /\ result' = "err")]_vars
    /\ [][(pc = "returned" /\ result = "err") =>
            (UNCHANGED CycleState /\ result' = "none" /\ pc' = "tick"
                /\ running' = running)]_vars
    /\ [](Completed =>
            /\ [i \in DOMAIN prior |-> Untimed(prior[i])]
                    = IF completed >= 2 THEN SnapshotOf(trackedPrev, obsPrev) ELSE <<>>
            /\ \A n \in Names :
                    Cardinality(EventsOf(n)) =
                        IF MapOf(prior)[n] # MapOf(current_statuses)[n] THEN 1 ELSE 0)

\* a fetch has failed after a service was added to or removed from the
\* tracked set since the last completed cycle, and a cycle is still to come
C27_Witness ==
    /\ pc = "returned"
    /\ result = "err"
    /\ completed >= 1
    /\ clock < MaxCycles
    /\ RowNames(tracked) # RowNames(trackedPrev)

\* C28: a cycle in which an emit returned Err replaces the table all the
\* same, keeps no record of the refused event once it has returned, and a
\* later cycle that finds for a name what the table holds emits nothing for
\* it: the refused event is not emitted again.
C28_FailedPublishNotRetried ==
    /\ []((Completed /\ emit_errors # {}) => last_known_statuses = current_statuses)
    /\ [][pc = "returned" =>
            /\ attempted' = <<>>
            /\ emit_errors' = {}
            /\ last_known_statuses' = last_known_statuses]_vars
    /\ [](Completed =>
            \A n \in Names :
                MapOf(prior)[n] = MapOf(current_statuses)[n] => EventsOf(n) = {})
    /\ []((Completed /\ completed >= 2
            /\ SnapshotOf(tracked_services, observed) = SnapshotOf(trackedPrev, obsPrev))
            => attempted = <<>>)

\* every event of a cycle over an earlier table was refused by the sink and
\* the table holds the new snapshot
C28_Witness ==
    /\ Completed
    /\ prior # <<>>
    /\ attempted # <<>>
    /\ emit_errors = DOMAIN attempted
    /\ MapOf(last_known_statuses) # MapOf(prior)

\* "web" is tracked and enabled, and whatever the running cycle has read of
\* it is the status x
StaysAt(x) ==
    /\ \E i \in DOMAIN tracked : tracked[i].name = "web" /\ tracked[i].enabled
    /\ observed["web"] # NotQueried => Reported("web", observed["web"]).status = x

\* the table holds "web" with a status other than x, and a cycle is running
\* or still to come
Undetected(x) ==
    /\ InSnapshot(last_known_statuses, "web")
    /\ EntryOf(last_known_statuses, "web").status # x
    /\ (clock < MaxCycles \/ pc = "query")

\* a StatusChanged event for "web" with new_status x has been emitted
Detected(x) ==
    \E i \in DOMAIN attempted :
        /\ attempted[i].type = "StatusChanged"
        /\ attempted[i].service_name = "web"
        /\ attempted[i].new_status = StatusText(x)

\* C29: if the retained table holds a tracked, enabled service with a
\* status other than x and from then on the service stays tracked and
\* enabled and every query of it reads x, a StatusChanged event for it with
\* new_status x is eventually emitted; and a completed cycle that reads for
\* a name the status the table holds emits nothing for it, whatever the
\* status was in between.
C29_EventualDetection ==
    /\ \A x \in ServiceStatus : Undetected(x) ~> (~StaysAt(x) \/ Detected(x))
    /\ [](Completed =>
            \A n \in Names :
                (InBoth(n) /\ EntryOf(prior, n).status = EntryOf(current_statuses, n).status)
                => EventsOf(n) = {})

\* after a failed fetch and a cycle that read "web" as failed, the change
\* from Running to Failed has been emitted
C29_Witness ==
    /\ Completed
    /\ InSnapshot(prior, "web")
    /\ EntryOf(prior, "web").status = Running
    /\ Detected(Failed)
    /\ StaysAt(Failed)

----------------------------------------------------------------------------
\* the listed services systemctl reports as active when asked, by name
ActiveListed ==
    LET active == SelectSeq(services,
                    LAMBDA s : machine.is_active[s.name] = "active")
    IN [i \in DOMAIN active |-> active[i].name]

\* C30: when stop_all_services returns Ok, stop_service has been called
\* once for every listed service whose `systemctl is-active` state is
\* active, in list order, and the returned vector holds one operation
\* result per such service, whether its stop succeeded or failed.
C30_StopsEveryActive ==
    spc = "returned" =>
        /\ stop_calls = ActiveListed
        /\ Len(results) = Len(ActiveListed)
        /\ \A i \in DOMAIN results : results[i].success \in BOOLEAN

====
